---- MODULE Spec2Model ----
(***************************************************************************)
(* Model of utils.py of CJK-Script-AI: the derivation of the English-word  *)
(* to radicals dictionary (create_eng_to_rads), its encoding into tensors  *)
(* (dict_to_tensors), the lookup of a word's tensor (get_tensor_from_word) *)
(* and the training loop (train_model).                                    *)
(*                                                                         *)
(* A Python dict is a sequence of records [key, val] with distinct keys,   *)
(* in insertion order.  A tensor is a sequence of rows, a row a sequence   *)
(* of 0/1 (the float32 values 0.0 and 1.0).                                *)
(***************************************************************************)
EXTENDS Integers, Sequences, FiniteSets, TLC

VARIABLES
    kanji_to_rads,   \* create_eng_to_rads: argument, a function kanji -> list of radicals
    eng_to_kanji,    \* create_eng_to_rads: argument, a dict word -> list of kanji
    eng_to_rads,     \* create_eng_to_rads: the returned dict; dict_to_tensors: the argument
    encoded,         \* dict_to_tensors: the returned 4-tuple, or the error raised
    word,            \* get_tensor_from_word: argument
    eng_tens,        \* get_tensor_from_word: argument
    eng_vocab,       \* get_tensor_from_word: argument
    found,           \* get_tensor_from_word: the outcome
    epochs,          \* train_model: argument
    examples,        \* train_model: number of (eng, rad) pairs zip yields
    scheduler,       \* train_model: TRUE iff scheduler is not None
    verbose,         \* train_model: argument
    epoch,           \* train_model: loop variable of the outer loop
    example,         \* train_model: position in the inner loop
    loss,            \* train_model: local, 0 or the loss of an example
    pc,              \* position in the running function
    calls,           \* train_model: number of calls of each collaborator so far
    visited,         \* train_model: examples visited so far in the current epoch
    printed          \* train_model: lines print_verbose has printed

vars == <<kanji_to_rads, eng_to_kanji, eng_to_rads, encoded, word, eng_tens,
          eng_vocab, found, epochs, examples, scheduler, verbose, epoch,
          example, loss, pc, calls, visited, printed>>

buildVars == <<kanji_to_rads, eng_to_kanji>>
lookupVars == <<word, eng_tens, eng_vocab, found>>
trainVars == <<epochs, examples, scheduler, verbose, epoch, example, loss,
               calls, visited, printed>>

----------------------------------------------------------------------------
(* Bounds of the inputs *)

MaxRads == 2     \* longest radical list
MaxKanji == 2    \* longest kanji list of a word
MaxRows == 2     \* most rows of a tensor handed to get_tensor_from_word
MaxEpochs == 2   \* largest small epoch count
MaxExamples == 2 \* most training examples

\* Labels in sorted order (the order sorted() and numpy.unique give them)
SortedWords == <<"a", "b", "c">>
SortedRadicals == <<"r1", "r2">>
Kanji == {"k1", "k2"}

Range(s) == {s[i] : i \in DOMAIN s}
Words == Range(SortedWords)
Radicals == Range(SortedRadicals)

SeqsUpTo(S, n) == UNION {[1..m -> S] : m \in 0..n}

\* the dicts with keys among K and values among V
Dicts(K, V) ==
    {d \in SeqsUpTo([key : K, val : V], Cardinality(K)) :
        \A i, j \in DOMAIN d : d[i].key = d[j].key => i = j}

Keys(d) == [i \in DOMAIN d |-> d[i].key]
Values(d) == [i \in DOMAIN d |-> d[i].val]
HasKey(d, k) == \E i \in DOMAIN d : d[i].key = k
IndexOfKey(d, k) == CHOOSE i \in DOMAIN d : d[i].key = k
Get(d, k) == d[IndexOfKey(d, k)].val
Contains(s, x) == \E i \in DOMAIN s : s[i] = x
NoDuplicates(s) == \A i, j \in DOMAIN s : s[i] = s[j] => i = j

----------------------------------------------------------------------------
(* create_eng_to_rads *)

\* faulty variants: no membership test; insertion at the front
AppendDuplicate(list, rad) == Append(list, rad)
AppendFront(list, rad) == IF Contains(list, rad) THEN list ELSE <<rad>> \o list

\* if rad not in eng_to_rads[eng_word]: eng_to_rads[eng_word].append(rad)
AppendUnique(list, rad) ==
    IF Contains(list, rad) THEN list ELSE Append(list, rad)

\* for rad in kanji_to_rads[kanji]: ...
RECURSIVE AddRads(_, _)
AddRads(list, rads) ==
    IF rads = <<>> THEN list
    ELSE AddRads(AppendUnique(list, Head(rads)), Tail(rads))

\* if kanji in kanji_to_rads: ...
AddKanji(list, kanji, k2r) ==
    IF kanji \in DOMAIN k2r THEN AddRads(list, k2r[kanji]) ELSE list

\* for kanji in eng_to_kanji[eng_word]: ...
RECURSIVE AddKanjis(_, _, _)
AddKanjis(list, kanjis, k2r) ==
    IF kanjis = <<>> THEN list
    ELSE AddKanjis(AddKanji(list, Head(kanjis), k2r), Tail(kanjis), k2r)

\* d[k] = v: a new key goes last, an existing key keeps its place
SetItem(d, k, v) ==
    IF HasKey(d, k)
    THEN [d EXCEPT ![IndexOfKey(d, k)].val = v]
    ELSE Append(d, [key |-> k, val |-> v])

\* faulty variants: the entry made only once a radical is found; the list of
\* the previous word carried over instead of a new empty list
EntryOnlyIfRadicals(e2r, entry, k2r) ==
    LET rads == AddKanjis(<<>>, entry.val, k2r)
    IN  IF rads = <<>> THEN e2r ELSE SetItem(e2r, entry.key, rads)
EntrySharedList(e2r, entry, k2r) ==
    LET before == IF e2r = <<>> THEN <<>> ELSE e2r[Len(e2r)].val
    IN  SetItem(e2r, entry.key, AddKanjis(before, entry.val, k2r))

\* the body of the outer loop for one word: eng_to_rads[eng_word] = [],
\* then the radicals of its kanji
AddEntry(e2r, entry, k2r) ==
    LET fresh == SetItem(e2r, entry.key, <<>>)
    IN  SetItem(fresh, entry.key, AddKanjis(Get(fresh, entry.key), entry.val, k2r))

\* for eng_word in eng_to_kanji: ...
RECURSIVE AddEntries(_, _, _)
AddEntries(e2r, entries, k2r) ==
    IF entries = <<>> THEN e2r
    ELSE AddEntries(AddEntry(e2r, Head(entries), k2r), Tail(entries), k2r)

create_eng_to_rads(k2r, e2k) == AddEntries(<<>>, e2k, k2r)

----------------------------------------------------------------------------
(* dict_to_tensors *)

\* sorted(set(labels)), the labels taken in their sorted order
SortedUnique(order, labels) ==
    SelectSeq(order, LAMBDA x : Contains(labels, x))

RECURSIVE Flatten(_)
Flatten(lists) ==
    IF lists = <<>> THEN <<>> ELSE Head(lists) \o Flatten(Tail(lists))

\* sklearn LabelBinarizer().fit_transform(y) with the default neg_label 0 and
\* pos_label 1: classes_ are the sorted distinct labels; one class gives a
\* single column of neg_label, two classes ("binary" target) give the single
\* column that marks classes_[1], three or more give one column per class
OneHotRow(classes, label) ==
    [j \in DOMAIN classes |-> IF classes[j] = label THEN 1 ELSE 0]
LabelRow(classes, label) ==
    IF Len(classes) = 1 THEN <<0>>
    ELSE IF Len(classes) = 2 THEN <<IF label = classes[2] THEN 1 ELSE 0>>
    ELSE OneHotRow(classes, label)

LabelBinarizer(y) ==
    IF y = <<>> THEN [kind |-> "ValueError"]
    ELSE LET classes == SortedUnique(SortedWords, y)
         IN  [kind |-> "ok",
              classes |-> classes,
              rows |-> [i \in DOMAIN y |-> LabelRow(classes, y[i])]]

\* faulty variant: only the first label of a list is marked
FirstLabelRow(classes, labels) ==
    [j \in DOMAIN classes |->
        IF labels # <<>> /\ classes[j] = Head(labels) THEN 1 ELSE 0]

\* sklearn MultiLabelBinarizer().fit_transform(y): classes_ are the sorted
\* distinct labels of all the label lists, row i marks the labels of y[i]
MultiHotRow(classes, labels) ==
    [j \in DOMAIN classes |-> IF Contains(labels, classes[j]) THEN 1 ELSE 0]

MultiLabelBinarizer(y) ==
    LET classes == SortedUnique(SortedRadicals, Flatten(y))
    IN  [classes |-> classes,
         rows |-> [i \in DOMAIN y |-> MultiHotRow(classes, y[i])]]

\* the assert compares the row counts, which both equal len(eng_to_rad)
dict_to_tensors(eng_to_rad) ==
    LET encoded_eng == LabelBinarizer(Keys(eng_to_rad))
        encoded_rad == MultiLabelBinarizer(Values(eng_to_rad))
    IN  IF encoded_eng.kind # "ok" THEN [kind |-> "ValueError"]
        ELSE IF Len(encoded_eng.rows) # Len(encoded_rad.rows)
        THEN [kind |-> "AssertionError"]
        ELSE [kind |-> "ok",
              eng_tensor |-> encoded_eng.rows,
              rad_tensor |-> encoded_rad.rows,
              eng_classes |-> encoded_eng.classes,
              rad_classes |-> encoded_rad.classes]

----------------------------------------------------------------------------
(* get_tensor_from_word *)

NotInVocabulary == "Word is not in vocabulary!"
TensorNotFound == "Corresponding tensor for word was not found!"

\* {vocab: idx for idx, vocab in enumerate(eng_vocab)}: a later occurrence of
\* a word overwrites an earlier one; the indices count from 0
WordToIdx(vocab, w) ==
    (CHOOSE i \in DOMAIN vocab :
        vocab[i] = w /\ \A j \in DOMAIN vocab : vocab[j] = w => j <= i) - 1

\* for tens in eng_tens: if tens[idx] == 1.: return tens
\* `inspected` counts the rows the loop has read
RECURSIVE ScanRows(_, _, _)
ScanRows(tens, idx, i) ==
    IF i > Len(tens)
    THEN [kind |-> "RuntimeError", msg |-> TensorNotFound, inspected |-> i - 1]
    ELSE IF idx + 1 > Len(tens[i])
    THEN [kind |-> "IndexError", inspected |-> i]
    ELSE IF tens[i][idx + 1] = 1
    THEN [kind |-> "return", row |-> tens[i], at |-> i, inspected |-> i]
    ELSE ScanRows(tens, idx, i + 1)

\* faulty variant: a word that is not in the vocabulary gets index 0
LookupUnchecked(w, tens, vocab) ==
    ScanRows(tens, IF Contains(vocab, w) THEN WordToIdx(vocab, w) ELSE 0, 1)

\* if word not in word_to_idx_dict: raise RuntimeError(...), then the scan
get_tensor_from_word(w, tens, vocab) ==
    IF ~Contains(vocab, w)
    THEN [kind |-> "RuntimeError", msg |-> NotInVocabulary, inspected |-> 0]
    ELSE ScanRows(tens, WordToIdx(vocab, w), 1)

----------------------------------------------------------------------------
(* Initial values of the variables a specification does not use *)

None == [kind |-> "none"]

IdleBuild == kanji_to_rads = <<>> /\ eng_to_kanji = <<>>
IdleEncode == encoded = None
IdleLookup == word = "" /\ eng_tens = <<>> /\ eng_vocab = <<>> /\ found = None
IdleTrain ==
    /\ epochs = 0 /\ examples = 0 /\ scheduler = FALSE /\ verbose = FALSE
    /\ epoch = 0 /\ example = 0 /\ loss = None /\ calls = <<>>
    /\ visited = <<>> /\ printed = <<>>

----------------------------------------------------------------------------
(* The derivation of the dictionary: load_eng_to_rads calls                *)
(* create_eng_to_rads on the two loaded dictionaries.                      *)

BuildWords == {SortedWords[1], SortedWords[2]}

InitBuild ==
    /\ \E D \in SUBSET Kanji :
           kanji_to_rads \in [D -> SeqsUpTo(Radicals, MaxRads)]
    /\ eng_to_kanji \in Dicts(BuildWords, SeqsUpTo(Kanji, MaxKanji))
    /\ eng_to_rads = None
    /\ pc = "loaded"
    /\ IdleEncode /\ IdleLookup /\ IdleTrain

Build ==
    /\ pc = "loaded"
    /\ eng_to_rads' = create_eng_to_rads(kanji_to_rads, eng_to_kanji)
    /\ pc' = "built"
    /\ UNCHANGED <<buildVars, encoded, lookupVars, trainVars>>

NextBuild == Build

SpecBuild == InitBuild /\ [][NextBuild]_vars

----------------------------------------------------------------------------
(* The encoding of a dictionary and the lookup of a word in the result     *)

InitEncode ==
    /\ eng_to_rads \in Dicts(Words, SeqsUpTo(Radicals, MaxRads))
    /\ pc = "built"
    /\ IdleBuild /\ IdleEncode /\ IdleLookup /\ IdleTrain

Encode ==
    /\ pc = "built"
    /\ encoded' = dict_to_tensors(eng_to_rads)
    /\ IF encoded'.kind = "ok"
       THEN /\ eng_tens' = encoded'.eng_tensor
            /\ eng_vocab' = encoded'.eng_classes
            /\ pc' = "encoded"
       ELSE /\ UNCHANGED <<eng_tens, eng_vocab>>
            /\ pc' = "failed"
    /\ UNCHANGED <<buildVars, eng_to_rads, word, found, trainVars>>

Lookup(w) ==
    /\ pc = "encoded"
    /\ word' = w
    /\ found' = get_tensor_from_word(w, eng_tens, eng_vocab)
    /\ pc' = "looked"
    /\ UNCHANGED <<buildVars, eng_to_rads, encoded, eng_tens, eng_vocab,
                   trainVars>>

NextEncode == Encode \/ \E w \in Words : Lookup(w)

SpecEncode == InitEncode /\ [][NextEncode]_vars

----------------------------------------------------------------------------
(* The lookup of a word in any tensor and any vocabulary                   *)

Tensors ==
    UNION {SeqsUpTo([1..width -> {0, 1}], MaxRows) : width \in 0..MaxRows}

InitLookup ==
    /\ eng_tens \in Tensors
    /\ eng_vocab \in SeqsUpTo(Words, MaxRows)
    /\ word = "" /\ found = None
    /\ eng_to_rads = None
    /\ pc = "encoded"
    /\ IdleBuild /\ IdleEncode /\ IdleTrain

NextLookup == \E w \in Words : Lookup(w)

SpecLookup == InitLookup /\ [][NextLookup]_vars

----------------------------------------------------------------------------
(* train_model *)

LogFirst == 100
LogEvery == 1000

\* the int 0 that `loss = 0` binds; a loss the criterion returns is a tensor
IntZero == [kind |-> "int"]
LossOf(e, x) == [kind |-> "tensor", epoch |-> e, example |-> x]

NoCalls == [zero_grad |-> 0, model |-> 0, criterion |-> 0, backward |-> 0,
            step |-> 0, scheduler |-> 0]
Called(f) == [calls EXCEPT ![f] = @ + 1]

EpochCounts == (0..MaxEpochs) \cup {LogFirst + 1, LogEvery + 1}

InitTrain ==
    /\ epochs \in EpochCounts
    /\ examples \in 0..MaxExamples
    /\ scheduler \in BOOLEAN
    /\ verbose \in BOOLEAN
    /\ epoch = 0 /\ example = 0 /\ loss = None
    /\ calls = NoCalls /\ visited = <<>> /\ printed = <<>>
    /\ pc = "call"
    /\ eng_to_rads = None
    /\ IdleBuild /\ IdleEncode /\ IdleLookup

trainArgs == <<epochs, examples, scheduler, verbose>>
otherVars == <<buildVars, eng_to_rads, encoded, lookupVars>>

\* loss = 0
Start ==
    /\ pc = "call"
    /\ loss' = IntZero
    /\ pc' = "epoch"
    /\ UNCHANGED <<otherVars, trainArgs, epoch, example, calls, visited, printed>>

\* for epoch in range(0, epochs):
EnterEpoch ==
    /\ pc = "epoch"
    /\ epoch < epochs
    /\ example' = 0
    /\ visited' = <<>>
    /\ pc' = "example"
    /\ UNCHANGED <<otherVars, trainArgs, epoch, loss, calls, printed>>

Return ==
    /\ pc = "epoch"
    /\ epoch >= epochs
    /\ pc' = "done"
    /\ UNCHANGED <<otherVars, trainArgs, epoch, example, loss, calls, visited,
                   printed>>

\* for eng, rad in zip(eng_tensors, rad_tensors):
NextExample ==
    /\ pc = "example"
    /\ example < examples
    /\ example' = example + 1
    /\ visited' = Append(visited, example + 1)
    /\ pc' = "zero_grad"
    /\ UNCHANGED <<otherVars, trainArgs, epoch, loss, calls, printed>>

ExamplesDone ==
    /\ pc = "example"
    /\ example >= examples
    /\ pc' = "scheduler"
    /\ UNCHANGED <<otherVars, trainArgs, epoch, example, loss, calls, visited,
                   printed>>

\* optimizer.zero_grad()
ZeroGrad ==
    /\ pc = "zero_grad"
    /\ calls' = Called("zero_grad")
    /\ pc' = "model"
    /\ UNCHANGED <<otherVars, trainArgs, epoch, example, loss, visited, printed>>

\* output = model(eng)
Forward ==
    /\ pc = "model"
    /\ calls' = Called("model")
    /\ pc' = "criterion"
    /\ UNCHANGED <<otherVars, trainArgs, epoch, example, loss, visited, printed>>

\* loss = criterion(output, rad)
Criterion ==
    /\ pc = "criterion"
    /\ calls' = Called("criterion")
    /\ loss' = LossOf(epoch, example)
    /\ pc' = "backward"
    /\ UNCHANGED <<otherVars, trainArgs, epoch, example, visited, printed>>

\* loss.backward()
Backward ==
    /\ pc = "backward"
    /\ calls' = Called("backward")
    /\ pc' = "step"
    /\ UNCHANGED <<otherVars, trainArgs, epoch, example, loss, visited, printed>>

\* optimizer.step()
Step ==
    /\ pc = "step"
    /\ calls' = Called("step")
    /\ pc' = "example"
    /\ UNCHANGED <<otherVars, trainArgs, epoch, example, loss, visited, printed>>

\* if scheduler is not None: scheduler.step()
SchedulerStep ==
    /\ pc = "scheduler"
    /\ scheduler
    /\ calls' = Called("scheduler")
    /\ pc' = "log"
    /\ UNCHANGED <<otherVars, trainArgs, epoch, example, loss, visited, printed>>

NoScheduler ==
    /\ pc = "scheduler"
    /\ ~scheduler
    /\ pc' = "log"
    /\ UNCHANGED <<otherVars, trainArgs, epoch, example, loss, calls, visited,
                   printed>>

\* if epoch % 1000 == 0 or epoch < 100:
Logged(e) == e % LogEvery = 0 \/ e < LogFirst

\* print_verbose("...".format(epoch + 1, loss.data.numpy()), verbose=verbose):
\* the arguments are evaluated before the call; an int has no attribute data
LogFails ==
    /\ pc = "log"
    /\ Logged(epoch)
    /\ loss = IntZero
    /\ pc' = "AttributeError"
    /\ UNCHANGED <<otherVars, trainArgs, epoch, example, loss, calls, visited,
                   printed>>

\* print_verbose: if verbose: print(*values)
print_verbose(line, v) == IF v THEN Append(printed, line) ELSE printed

Log ==
    /\ pc = "log"
    /\ Logged(epoch)
    /\ loss # IntZero
    /\ printed' = print_verbose([epoch |-> epoch + 1, loss |-> loss], verbose)
    /\ epoch' = epoch + 1
    /\ pc' = "epoch"
    /\ UNCHANGED <<otherVars, trainArgs, example, loss, calls, visited>>

NoLog ==
    /\ pc = "log"
    /\ ~Logged(epoch)
    /\ epoch' = epoch + 1
    /\ pc' = "epoch"
    /\ UNCHANGED <<otherVars, trainArgs, example, loss, calls, visited, printed>>

NextTrain ==
    \/ Start \/ EnterEpoch \/ Return \/ NextExample \/ ExamplesDone
    \/ ZeroGrad \/ Forward \/ Criterion \/ Backward \/ Step
    \/ SchedulerStep \/ NoScheduler \/ LogFails \/ Log \/ NoLog

SpecTrain == InitTrain /\ [][NextTrain]_vars

----------------------------------------------------------------------------
(* Properties of create_eng_to_rads, checked under SpecBuild *)

Built == pc = "built"

\* the kanji of a word that have an entry in kanji_to_rads
Present(kanjis) == SelectSeq(kanjis, LAMBDA k : k \in DOMAIN kanji_to_rads)

\* C1: create_eng_to_rads returns a mapping whose key set is exactly the key
\* set of englishToKanji; a word whose kanji are all absent from
\* kanjiToRadicals, or that has no kanji, is present and maps to the empty list.
C1_SameKeys ==
    Built =>
        /\ NoDuplicates(Keys(eng_to_rads))
        /\ Range(Keys(eng_to_rads)) = Range(Keys(eng_to_kanji))
        /\ \A i \in DOMAIN eng_to_kanji :
               Present(eng_to_kanji[i].val) = <<>> =>
                   /\ HasKey(eng_to_rads, eng_to_kanji[i].key)
                   /\ Get(eng_to_rads, eng_to_kanji[i].key) = <<>>

\* a word with kanji, none of which has radicals, next to a word with radicals
C1_Witness ==
    /\ Built
    /\ \E i, j \in DOMAIN eng_to_kanji :
           /\ eng_to_kanji[i].val # <<>>
           /\ Present(eng_to_kanji[i].val) = <<>>
           /\ Get(eng_to_rads, eng_to_kanji[j].key) # <<>>

\* C2: no radical list of the result holds a value twice, also when a kanji
\* occurs twice in the word, when two kanji of the word share a radical and
\* when a kanji's own radical list repeats a radical.
C2_NoDuplicateRadicals ==
    Built => \A i \in DOMAIN eng_to_rads : NoDuplicates(eng_to_rads[i].val)

\* a word that names twice a kanji whose radical list repeats a radical
C2_Witness ==
    /\ Built
    /\ \E i \in DOMAIN eng_to_kanji :
           LET kanjis == eng_to_kanji[i].val
           IN  /\ Len(kanjis) = 2
               /\ kanjis[1] = kanjis[2]
               /\ kanjis[1] \in DOMAIN kanji_to_rads
               /\ ~NoDuplicates(kanji_to_rads[kanjis[1]])
               /\ Get(eng_to_rads, eng_to_kanji[i].key) # <<>>

\* C3: every radical in the list of a word w comes from a kanji of w that has
\* an entry in kanjiToRadicals; the radicals of the kanji of another word
\* never appear in w's list.
C3_RadicalsTraceToKanji ==
    Built =>
        \A i \in DOMAIN eng_to_rads :
            \A r \in Range(eng_to_rads[i].val) :
                /\ HasKey(eng_to_kanji, eng_to_rads[i].key)
                /\ \E k \in Range(Get(eng_to_kanji, eng_to_rads[i].key)) :
                       /\ k \in DOMAIN kanji_to_rads
                       /\ Contains(kanji_to_rads[k], r)

\* two words with radicals, the second without a radical of the first
C3_Witness ==
    /\ Built
    /\ Len(eng_to_rads) = 2
    /\ eng_to_rads[2].val # <<>>
    /\ \E r \in Range(eng_to_rads[1].val) : ~Contains(eng_to_rads[2].val, r)

\* the reference result: the radical lists of the present kanji, concatenated
\* in the order of the kanji, reduced to the first occurrence of each radical
Concatenated(kanjis) ==
    Flatten([i \in DOMAIN Present(kanjis) |-> kanji_to_rads[Present(kanjis)[i]]])
FirstOccurrences(s) ==
    LET first == {i \in DOMAIN s : \A j \in 1..(i - 1) : s[j] # s[i]}
        RECURSIVE From(_)
        From(i) ==
            IF i > Len(s) THEN <<>>
            ELSE (IF i \in first THEN <<s[i]>> ELSE <<>>) \o From(i + 1)
    IN  From(1)

\* C4: the list of every word equals the reference result, so every radical
\* of every present kanji of the word appears, in first-seen order.
C4_EqualsReference ==
    Built =>
        /\ Len(eng_to_rads) = Len(eng_to_kanji)
        /\ \A i \in DOMAIN eng_to_kanji :
               /\ HasKey(eng_to_rads, eng_to_kanji[i].key)
               /\ Get(eng_to_rads, eng_to_kanji[i].key)
                      = FirstOccurrences(Concatenated(eng_to_kanji[i].val))

\* a word of two different kanji that share a radical, whose list is not in
\* sorted order
C4_Witness ==
    /\ Built
    /\ \E i \in DOMAIN eng_to_kanji :
           LET kanjis == eng_to_kanji[i].val
           IN  /\ Len(kanjis) = 2
               /\ kanjis[1] # kanjis[2]
               /\ Len(Concatenated(kanjis)) > 2
               /\ Get(eng_to_rads, eng_to_kanji[i].key)
                      = <<SortedRadicals[2], SortedRadicals[1]>>

----------------------------------------------------------------------------
(* Properties of dict_to_tensors and of the lookup in its result, checked  *)
(* under SpecEncode                                                        *)

Encoded == pc \in {"encoded", "looked"}
Ones(row) == {j \in DOMAIN row : row[j] = 1}
IsBinary(row) == \A j \in DOMAIN row : row[j] \in {0, 1}

\* C5: for any number of words n >= 1, row i of the input vectors has length
\* |englishVocabulary|, exactly one entry 1.0 and all others 0.0, and the
\* index of that entry maps back through englishVocabulary to the i-th word.
C5_OneHotInput ==
    Encoded =>
        \A i \in DOMAIN eng_to_rads :
            LET row == encoded.eng_tensor[i]
            IN  /\ Len(row) = Len(encoded.eng_classes)
                /\ IsBinary(row)
                /\ Cardinality(Ones(row)) = 1
                /\ \A j \in Ones(row) :
                       encoded.eng_classes[j] = eng_to_rads[i].key

\* C6: row i of the target vectors has length |radicalVocabulary| and holds
\* 1.0 exactly at the positions of the radicals of the i-th word, 0.0
\* elsewhere; radicalVocabulary has no duplicates and holds exactly the
\* radicals of some word's list; an empty radical list gives the zero row.
C6_MultiHotTarget ==
    Encoded =>
        /\ Len(encoded.rad_tensor) = Len(eng_to_rads)
        /\ NoDuplicates(encoded.rad_classes)
        /\ Range(encoded.rad_classes)
               = UNION {Range(eng_to_rads[i].val) : i \in DOMAIN eng_to_rads}
        /\ \A i \in DOMAIN eng_to_rads :
               LET row == encoded.rad_tensor[i]
               IN  /\ Len(row) = Len(encoded.rad_classes)
                   /\ IsBinary(row)
                   /\ Ones(row) = {j \in DOMAIN encoded.rad_classes :
                          Contains(eng_to_rads[i].val, encoded.rad_classes[j])}
                   /\ (eng_to_rads[i].val = <<>> => Ones(row) = {})

\* a word without radicals, a word with two radicals out of sorted order and
\* a word whose list repeats a radical
C6_Witness ==
    /\ Encoded
    /\ \E i, j, k \in DOMAIN eng_to_rads :
           /\ eng_to_rads[i].val = <<>>
           /\ eng_to_rads[j].val = <<SortedRadicals[2], SortedRadicals[1]>>
           /\ eng_to_rads[k].val = <<SortedRadicals[1], SortedRadicals[1]>>
           /\ Ones(encoded.rad_tensor[j]) = {1, 2}

\* C8: for every word w of englishToRadicals, get_tensor_from_word on the
\* input vectors and vocabulary dict_to_tensors returned gives back the row
\* produced for w itself; it never returns the row of another word and fails
\* with no error other than NotFound (the RuntimeError).
C8_LookupReturnsOwnRow ==
    (pc = "looked" /\ HasKey(eng_to_rads, word)) =>
        \/ /\ found.kind = "return"
           /\ found.at = IndexOfKey(eng_to_rads, word)
           /\ found.row = encoded.eng_tensor[IndexOfKey(eng_to_rads, word)]
        \/ found.kind = "RuntimeError"

----------------------------------------------------------------------------
(* Property of get_tensor_from_word, checked under SpecLookup *)

\* C7: for every word that is not in englishVocabulary the lookup fails with
\* RuntimeError "Word is not in vocabulary!" before it inspects any row, and
\* returns no vector, whatever the input vectors are.
C7_AbsentWordNotFound ==
    (pc = "looked" /\ ~Contains(eng_vocab, word)) =>
        /\ found.kind = "RuntimeError"
        /\ found.msg = NotInVocabulary
        /\ found.inspected = 0

\* an absent word, looked up in a tensor whose first row has 1.0 at index 0
C7_Witness ==
    /\ pc = "looked"
    /\ ~Contains(eng_vocab, word)
    /\ eng_vocab # <<>>
    /\ eng_tens # <<>>
    /\ Ones(eng_tens[1]) = {1}

----------------------------------------------------------------------------
(* Properties of train_model, checked under SpecTrain *)

Finished == pc \in {"done", "AttributeError"}

\* C9: train_model performs exactly E epochs with no early exit; in each
\* epoch it visits the examples once each in order, and for each example
\* calls zero_grad, the model, the criterion, backward and the optimizer step
\* in that order, E*N optimizer steps in all; a supplied scheduler is stepped
\* once per epoch, after the epoch's last optimizer step and before the next
\* epoch's first, and never when none is supplied.
C9_EpochLoop ==
    /\ calls.zero_grad >= calls.model
    /\ calls.model >= calls.criterion
    /\ calls.criterion >= calls.backward
    /\ calls.backward >= calls.step
    /\ calls.step >= calls.zero_grad - 1
    /\ visited = [i \in 1..example |-> i]
    /\ (~scheduler => calls.scheduler = 0)
    /\ (scheduler => /\ calls.scheduler * examples <= calls.step
                     /\ calls.step <= (calls.scheduler + 1) * examples)
    /\ (Finished => /\ pc = "done"
                    /\ epoch = epochs
                    /\ calls.step = epochs * examples
                    /\ (scheduler => calls.scheduler = epochs))

\* the lines printed are those of the epochs 0 .. done - 1 that are logged,
\* in the order of the epochs, each with the loss of the epoch's last example
PrintedFor(done) ==
    /\ {printed[i].epoch - 1 : i \in DOMAIN printed}
           = {e \in 0..(done - 1) : e < LogFirst \/ e % LogEvery = 0}
    /\ \A i, j \in DOMAIN printed : i < j => printed[i].epoch < printed[j].epoch
    /\ \A i \in DOMAIN printed :
           printed[i].loss = LossOf(printed[i].epoch - 1, examples)

\* C10: for every E >= 0 and N >= 0, N = 0 with E >= 1 included, train_model
\* runs to completion without raising an error; it prints nothing when
\* verbose is off, and when it is on it prints a line exactly for the epochs
\* e < 100 or e divisible by 1000, each with the loss of the epoch's last
\* example.
C10_RunsToCompletion ==
    /\ pc # "AttributeError"
    /\ (~verbose => printed = <<>>)
    /\ ((verbose /\ pc \in {"epoch", "done"}) => PrintedFor(epoch))

====
